---- MODULE Spec2Model ----
(***************************************************************************)
(* Model of convert_images_to_webp.py: the WebP transcoder                 *)
(* (convert_blob_to_webp), the field converter (process_object) and the    *)
(* batch driver (convert_all_images) with its commits and database pack.   *)
(***************************************************************************)
EXTENDS Integers, Sequences, FiniteSets, TLC

(***************************************************************************)
(* Bounds of the model.                                                    *)
(***************************************************************************)
\* Largest number of catalog brains in a run.
MaxT == 7
\* Commit interval.  The source fixes COMMIT_EVERY = 100 (line 34); the model
\* runs the same guard, idx % COMMIT_EVERY = 0, with a scaled-down interval so
\* that several intervals fit into MaxT objects.
COMMIT_EVERY == 3
\* Number of process_object calls made on one object in SpecPO.
MaxCalls == 2
\* Largest number of frames of an animated image given to the transcoder.
MaxFrames == 2
\* Largest current and total given to progress_bar in SpecPB.
MaxTotal == 9
\* Largest elapsed time, in seconds, seen by progress_bar in SpecPB.
MaxElapsed == 2

(***************************************************************************)
(* Strings that the code inspects are sequences of characters.             *)
(***************************************************************************)
LowerChar(c) ==
    CASE c = "I" -> "i" [] c = "M" -> "m" [] c = "A" -> "a" [] c = "G" -> "g"
      [] c = "E" -> "e" [] c = "W" -> "w" [] c = "B" -> "b" [] c = "P" -> "p"
      [] c = "N" -> "n" [] OTHER -> c

\* str.lower()
Lower(s) == [i \in DOMAIN s |-> LowerChar(s[i])]

WEBP_MIME == <<"i","m","a","g","e","/","w","e","b","p">>
WEBP_MIME_UPPER == <<"I","M","A","G","E","/","W","E","B","P">>
WEBP_MIME_MIXED == <<"i","m","a","g","e","/","W","e","b","P">>
PNG_MIME == <<"i","m","a","g","e","/","p","n","g">>
NO_MIME == <<>>

(***************************************************************************)
(* Blobs.  A blob is what Pillow would see in the bytes: whether they      *)
(* decode, the decoded mode, whether img.info carries "transparency", the  *)
(* frame count with its timing, and whether the WebP encoder accepts the   *)
(* image.  EmptyBlob is data that is None or b"".                          *)
(***************************************************************************)
Blob(fmt, mode, transp, frames, duration, loop, decodable, encodable) ==
    [fmt |-> fmt, mode |-> mode, transparency |-> transp, frames |-> frames,
     duration |-> duration, loop |-> loop,
     decodable |-> decodable, encodable |-> encodable]

EmptyBlob == Blob("EMPTY", "NONE", FALSE, 0, 0, 0, FALSE, FALSE)
NoneBlob == Blob("NONE", "NONE", FALSE, 0, 0, 0, FALSE, FALSE)

\* bool(data): None and b"" are falsy
Truthy(data) == data.fmt \notin {"EMPTY", "NONE"}

JpegBlob == Blob("JPEG", "RGB", FALSE, 1, 0, 0, TRUE, TRUE)
PngAlphaBlob == Blob("PNG", "RGBA", FALSE, 1, 0, 0, TRUE, TRUE)
PngPaletteBlob == Blob("PNG", "P", TRUE, 1, 0, 0, TRUE, TRUE)
GifAnimBlob == Blob("GIF", "P", FALSE, 2, 40, 3, TRUE, TRUE)
CorruptBlob == Blob("JUNK", "NONE", FALSE, 0, 0, 0, FALSE, FALSE)
HugeBlob == Blob("PNG", "RGB", FALSE, 1, 0, 0, TRUE, FALSE)

\* The result of img.save(out, "WEBP", ...) without save_all: one frame.
WebpBlob(mode) == Blob("WEBP", mode, FALSE, 1, 0, 0, TRUE, TRUE)

\* convert_blob_to_webp: NoneBlob stands for the returned None.
convert_blob_to_webp(blob_data) ==
    IF ~blob_data.decodable
    THEN NoneBlob
    ELSE IF ~blob_data.encodable
    THEN NoneBlob
    ELSE IF blob_data.mode \in {"RGBA", "LA"}
            \/ (blob_data.mode = "P" /\ blob_data.transparency)
    THEN WebpBlob("RGBA")
    ELSE WebpBlob("RGB")

(***************************************************************************)
(* Field values and content objects.                                       *)
(***************************************************************************)
\* A filename is None or a string.
NoName == [none |-> TRUE, s |-> <<>>]
Name(s) == [none |-> FALSE, s |-> s]

\* NamedBlobImage(data, filename, contentType); NoField is a candidate
\* attribute that is missing or None.
NamedBlobImage(data, filename, contentType) ==
    [present |-> TRUE, data |-> data, filename |-> filename,
     contentType |-> contentType]

NoField == [present |-> FALSE, data |-> NoneBlob, filename |-> NoName,
            contentType |-> NO_MIME]

candidate_fields == <<"image", "event_image", "lead_image">>

\* field_value.filename or "image"
FilenameOrDefault(filename) ==
    IF filename.none \/ filename.s = <<>>
    THEN <<"i","m","a","g","e">>
    ELSE filename.s

\* Position of the last "." of s, 0 when there is none.
LastDot(s) ==
    LET dots == {i \in DOMAIN s : s[i] = "."}
    IN IF dots = {} THEN 0 ELSE CHOOSE i \in dots : \A j \in dots : j <= i

\* Position of the first "." of s, 0 when there is none.
FirstDot(s) ==
    LET dots == {i \in DOMAIN s : s[i] = "."}
    IN IF dots = {} THEN 0 ELSE CHOOSE i \in dots : \A j \in dots : i <= j

\* Mutant of RsplitBase: split(".")[0] instead of rsplit(".", 1)[0].
SplitBase(s) == IF FirstDot(s) = 0 THEN s ELSE SubSeq(s, 1, FirstDot(s) - 1)

\* filename.rsplit(".", 1)[0]
RsplitBase(s) == IF LastDot(s) = 0 THEN s ELSE SubSeq(s, 1, LastDot(s) - 1)

\* f"{base}.webp"
NewFilename(filename) ==
    RsplitBase(FilenameOrDefault(filename)) \o <<".","w","e","b","p">>

\* Mutant of IsAlreadyWebp: the comparison without .lower().
IsAlreadyWebpCaseSensitive(field_value) == field_value.contentType = WEBP_MIME

\* getattr(field_value, "contentType", "").lower() == "image/webp"
IsAlreadyWebp(field_value) == Lower(field_value.contentType) = WEBP_MIME

\* Mutant of NewImage: the new value keeps a source format's content type.
NewImageKeepsType(webp_data, new_filename) ==
    NamedBlobImage(webp_data, Name(new_filename), PNG_MIME)

\* The value stored by setattr(obj, field_name, new_image)
NewImage(webp_data, new_filename) ==
    NamedBlobImage(webp_data, Name(new_filename), WEBP_MIME)

(***************************************************************************)
(* Faults of the store while process_object runs: the access to candidate  *)
(* field number `at` raises ConflictError ("conflict") or another          *)
(* exception ("error"); at = 0 is a call without such a fault.             *)
(***************************************************************************)
NoFault == [at |-> 0, kind |-> "none"]
Faults == {NoFault} \cup
          {[at |-> k, kind |-> e] : k \in 1..3, e \in {"conflict", "error"}}

VARIABLES
    DRY_RUN,       \* the module-level flag, read from the environment
    pc,            \* position of convert_all_images
    total,         \* len(brains)
    idx,           \* the loop index of convert_all_images
    processed,
    skipped,
    failed,
    lastOutcome,   \* what happened to the object visited last
    sinceCommit,   \* objects visited since the last transaction.commit()
    commits,       \* successful transaction.commit() calls
    pending,       \* field writes of the open transaction
    committed,     \* field writes made durable by a commit
    reindexed,     \* obj.reindexObject() calls
    packs,         \* db.pack() calls
    announced,     \* CONVERT lines logged by process_object
    summary,       \* the DONE line was logged
    escaped,       \* what left convert_all_images as an exception
    emptyLogged,   \* "No image-related content found." was logged
    pb_call,       \* the arguments of the last progress_bar call
    pendingOfFailed,    \* pending writes made for objects counted failed
    committedOfFailed,  \* committed writes made for objects counted failed
    obj,           \* SpecPO: the object handed to process_object
    before,        \* SpecPO: the object as it was before the last call
    results,       \* SpecPO: what each call of process_object did
    tc_input,      \* SpecTC: the bytes handed to convert_blob_to_webp
    tc_done,       \* SpecTC: convert_blob_to_webp has returned
    tc_output,     \* SpecTC: what convert_blob_to_webp returned
    pb_elapsed,    \* SpecPB: time.time() - start_time inside progress_bar
    pb_line        \* SpecPB: what progress_bar returned and wrote

driverVars == <<pc, total, idx, processed, skipped, failed, lastOutcome,
                sinceCommit, commits, pending, committed, reindexed, packs,
                announced, summary, escaped, emptyLogged, pb_call,
                pendingOfFailed, committedOfFailed>>
tcVars == <<tc_input, tc_done, tc_output>>
pbVars == <<pb_elapsed, pb_line>>
poVars == <<obj, before, results, tcVars, pbVars>>
vars == <<DRY_RUN, driverVars, poVars>>

(***************************************************************************)
(* process_object.  The loop over candidate_fields is a fold whose         *)
(* accumulator is the object, the changed flag, the exception in flight    *)
(* and the trace of calls made on the way: the fields handed to            *)
(* convert_blob_to_webp, the CONVERT lines logged, the fields written by   *)
(* setattr and the reindex request.                                        *)
(***************************************************************************)
StartOfCall(o) ==
    [obj |-> o, changed |-> FALSE, raised |-> "none", writes |-> 0,
     transcoded |-> <<>>, announced |-> 0, written |-> <<>>, reindex |-> 0,
     reindexFailed |-> FALSE]

\* Mutant of FieldStep: a failed transcoding is not skipped with "continue"
\* but ends the call with an exception.
FieldStepFailureRaises(acc, k, fault, dry) ==
    LET field_name == candidate_fields[k]
        field_value == acc.obj[field_name]
        webp_data == convert_blob_to_webp(field_value.data)
    IN IF acc.raised # "none"
       THEN acc
       ELSE IF fault.at = k
       THEN [acc EXCEPT !.raised = fault.kind]
       ELSE IF ~field_value.present
       THEN acc
       ELSE IF ~Truthy(field_value.data)
       THEN acc
       ELSE IF IsAlreadyWebp(field_value)
       THEN acc
       ELSE IF ~Truthy(webp_data)
       THEN [acc EXCEPT !.transcoded = Append(@, field_name),
                        !.raised = "error"]
       ELSE IF dry
       THEN [acc EXCEPT !.transcoded = Append(@, field_name),
                        !.announced = @ + 1]
       ELSE [acc EXCEPT
               !.transcoded = Append(@, field_name),
               !.announced = @ + 1,
               !.obj[field_name] =
                   NewImage(webp_data, NewFilename(field_value.filename)),
               !.written = Append(@, field_name),
               !.writes = @ + 1,
               !.changed = TRUE]

\* Mutant of FieldStep: changed = True sits outside "if not DRY_RUN".
FieldStepChangedInDryRun(acc, k, fault, dry) ==
    LET field_name == candidate_fields[k]
        field_value == acc.obj[field_name]
        webp_data == convert_blob_to_webp(field_value.data)
    IN IF acc.raised # "none"
       THEN acc
       ELSE IF fault.at = k
       THEN [acc EXCEPT !.raised = fault.kind]
       ELSE IF ~field_value.present
       THEN acc
       ELSE IF ~Truthy(field_value.data)
       THEN acc
       ELSE IF IsAlreadyWebp(field_value)
       THEN acc
       ELSE IF ~Truthy(webp_data)
       THEN [acc EXCEPT !.transcoded = Append(@, field_name)]
       ELSE IF dry
       THEN [acc EXCEPT !.transcoded = Append(@, field_name),
                        !.announced = @ + 1,
                        !.changed = TRUE]
       ELSE [acc EXCEPT
               !.transcoded = Append(@, field_name),
               !.announced = @ + 1,
               !.obj[field_name] =
                   NewImage(webp_data, NewFilename(field_value.filename)),
               !.written = Append(@, field_name),
               !.writes = @ + 1,
               !.changed = TRUE]

\* One iteration of the for loop, lines 130-168.
FieldStep(acc, k, fault, dry) ==
    LET field_name == candidate_fields[k]
        field_value == acc.obj[field_name]
        webp_data == convert_blob_to_webp(field_value.data)
    IN IF acc.raised # "none"
       THEN acc
       ELSE IF fault.at = k
       THEN [acc EXCEPT !.raised = fault.kind]
       ELSE IF ~field_value.present
       THEN acc
       ELSE IF ~Truthy(field_value.data)
       THEN acc
       ELSE IF IsAlreadyWebp(field_value)
       THEN acc
       ELSE IF ~Truthy(webp_data)
       THEN [acc EXCEPT !.transcoded = Append(@, field_name)]
       ELSE IF dry
       THEN [acc EXCEPT !.transcoded = Append(@, field_name),
                        !.announced = @ + 1]
       ELSE [acc EXCEPT
               !.transcoded = Append(@, field_name),
               !.announced = @ + 1,
               !.obj[field_name] =
                   NewImage(webp_data, NewFilename(field_value.filename)),
               !.written = Append(@, field_name),
               !.writes = @ + 1,
               !.changed = TRUE]

\* Mutant of ReindexStep: no try/except around obj.reindexObject().
ReindexStepUnguarded(acc, reindex_ok, dry) ==
    IF acc.raised = "none" /\ acc.changed /\ ~dry
    THEN [acc EXCEPT !.reindex = @ + 1, !.reindexFailed = ~reindex_ok,
                     !.raised = IF reindex_ok THEN "none" ELSE "error"]
    ELSE acc

\* Lines 170-177: the reindex request, whose failure is swallowed.
ReindexStep(acc, reindex_ok, dry) ==
    IF acc.raised = "none" /\ acc.changed /\ ~dry
    THEN [acc EXCEPT !.reindex = @ + 1, !.reindexFailed = ~reindex_ok]
    ELSE acc

\* dry is the value of the global DRY_RUN that the function reads.
process_object(o, fault, reindex_ok, dry) ==
    ReindexStep(
        FieldStep(FieldStep(FieldStep(StartOfCall(o), 1, fault, dry),
                            2, fault, dry),
                  3, fault, dry),
        reindex_ok, dry)

(***************************************************************************)
(* The objects of the model.                                               *)
(***************************************************************************)
DotName == Name(<<"a", ".", "b", ".", "c">>)
PlainName == Name(<<"a">>)

\* Field values given to process_object in SpecPO.
FieldValues ==
    { NoField,
      NamedBlobImage(EmptyBlob, DotName, PNG_MIME),
      NamedBlobImage(WebpBlob("RGB"), DotName, WEBP_MIME),
      NamedBlobImage(JpegBlob, PlainName, WEBP_MIME_UPPER),
      NamedBlobImage(PngAlphaBlob, DotName, WEBP_MIME_MIXED),
      NamedBlobImage(JpegBlob, DotName, PNG_MIME),
      NamedBlobImage(PngAlphaBlob, NoName, NO_MIME),
      NamedBlobImage(CorruptBlob, DotName, PNG_MIME) }

Objects == [{"image", "event_image", "lead_image"} -> FieldValues]

\* Field values of the objects behind the brains of a run.
DriverFieldValues ==
    { NoField,
      NamedBlobImage(WebpBlob("RGB"), DotName, WEBP_MIME),
      NamedBlobImage(JpegBlob, DotName, PNG_MIME),
      NamedBlobImage(CorruptBlob, DotName, PNG_MIME) }

DriverObjects == [{"image", "event_image", "lead_image"} -> DriverFieldValues]

NoObject == [f \in {"image", "event_image", "lead_image"} |-> NoField]

(***************************************************************************)
(* convert_all_images                                                      *)
(***************************************************************************)
\* What the driver and the open transaction see of one process_object call.
Effect(r) ==
    [raised |-> r.raised, changed |-> r.changed, writes |-> r.writes,
     announced |-> r.announced, reindex |-> r.reindex]

\* Line 240 when process_object raises, over the objects and store faults
\* of the model, for each value of DRY_RUN.
RaisingCalls ==
    [dry \in BOOLEAN |->
        {Effect(process_object(o, fault, TRUE, dry)) :
            o \in DriverObjects, fault \in Faults \ {NoFault}}]

\* Line 240 when process_object returns.
ReturningCalls ==
    [dry \in BOOLEAN |->
        {Effect(process_object(o, NoFault, reindex_ok, dry)) :
            o \in DriverObjects, reindex_ok \in BOOLEAN}]

\* Line 36
PACK_DATABASE_AFTER == ~DRY_RUN

(***************************************************************************)
(* progress_bar                                                            *)
(***************************************************************************)
\* The default of the length parameter, line 48.
BarLength == 30

\* The arguments (current, total, length) of a call; NoCall before the
\* first call.
ProgressCall(current, tot, length) ==
    [current |-> current, total |-> tot, length |-> length]
NoCall == ProgressCall(-1, -1, -1)

\* What a call of progress_bar leaves behind: the returned line, as the
\* numbers it is formatted from, and whether it was written to stdout.
\* NoLine is the state before any call has returned.
Line(empty, filled, unfilled, current, tot, eta, wrote) ==
    [empty |-> empty, filled |-> filled, unfilled |-> unfilled,
     current |-> current, total |-> tot, eta |-> eta, wrote |-> wrote]
Ratio(num, den) == [num |-> num, den |-> den]
NoLine == Line(FALSE, -1, -1, -1, -1, Ratio(0, 1), FALSE)
EmptyLine == Line(TRUE, 0, 0, 0, 0, Ratio(0, 1), FALSE)

\* "x" * n: a repetition count below zero gives the empty string.
Repeat(n) == IF n > 0 THEN n ELSE 0

\* Mutant of progress_bar: the filled cells are rounded up.
progress_barRoundsUp(current, tot, elapsed, length) ==
    IF tot <= 0
    THEN EmptyLine
    ELSE LET filled == (length * current + tot - 1) \div tot
         IN Line(FALSE, Repeat(filled), Repeat(length - filled),
                 current, tot,
                 IF current > 0
                 THEN Ratio(elapsed * (tot - current), current)
                 ELSE Ratio(0, 1),
                 TRUE)

\* Lines 48-69.  elapsed is time.time() - start_time; eta is kept as the
\* exact ratio elapsed * (total - current) / current.  The parameter total
\* is written tot here.
progress_bar(current, tot, elapsed, length) ==
    IF tot <= 0
    THEN EmptyLine
    ELSE LET filled == (length * current) \div tot
         IN Line(FALSE, Repeat(filled), Repeat(length - filled),
                 current, tot,
                 IF current > 0
                 THEN Ratio(elapsed * (tot - current), current)
                 ELSE Ratio(0, 1),
                 TRUE)

Init ==
    /\ DRY_RUN \in BOOLEAN
    /\ total \in 0..MaxT
    /\ pc = "start"
    /\ idx = 0
    /\ processed = 0 /\ skipped = 0 /\ failed = 0
    /\ lastOutcome = "none"
    /\ sinceCommit = 0 /\ commits = 0
    /\ pending = 0 /\ committed = 0
    /\ reindexed = 0 /\ packs = 0 /\ announced = 0
    /\ summary = FALSE
    /\ escaped = "none"
    /\ emptyLogged = FALSE /\ pb_call = NoCall
    /\ pendingOfFailed = 0 /\ committedOfFailed = 0
    /\ pb_elapsed = 0 /\ pb_line = NoLine
    /\ obj = NoObject /\ before = NoObject /\ results = <<>>
    /\ tc_input = NoneBlob /\ tc_done = FALSE /\ tc_output = NoneBlob

\* Mutant of Start: no early return on an empty result, the run goes on
\* into the loop and to the final commit.
StartWithoutEarlyReturn ==
    /\ pc = "start"
    /\ pc' = "loop"
    /\ emptyLogged' = (total = 0)
    /\ UNCHANGED <<DRY_RUN, total, idx, processed, skipped, failed,
                   lastOutcome, sinceCommit, commits, pending, committed,
                   reindexed, packs, announced, summary, escaped, poVars,
                   pb_call, pendingOfFailed, committedOfFailed>>

\* Lines 200-218: the catalog query and the early return on no brains.
Start ==
    /\ pc = "start"
    /\ pc' = IF total = 0 THEN "returned" ELSE "loop"
    /\ emptyLogged' = (total = 0)
    /\ UNCHANGED <<DRY_RUN, total, idx, processed, skipped, failed,
                   lastOutcome, sinceCommit, commits, pending, committed,
                   reindexed, packs, announced, summary, escaped, poVars,
                   pb_call, pendingOfFailed, committedOfFailed>>

\* Mutant of VisitFetchRaises: the exception of the fetch is not handled
\* and leaves convert_all_images.
VisitFetchEscapes ==
    /\ pc = "loop" /\ idx < total
    /\ \E kind \in {"fetch_conflict", "fetch_error"} : lastOutcome' = kind
    /\ idx' = idx + 1
    /\ pb_call' = ProgressCall(idx + 1, total, BarLength)
    /\ sinceCommit' = sinceCommit + 1
    /\ pc' = "raised"
    /\ escaped' = "fetch"
    /\ UNCHANGED <<DRY_RUN, total, processed, skipped, failed, commits,
                   pending, committed, reindexed, packs, announced, summary,
                   poVars,
                   emptyLogged, pendingOfFailed, committedOfFailed>>

\* Lines 220-237: brain._unrestrictedGetObject() raises; the object is
\* counted as failed and the loop continues with the next brain.
VisitFetchRaises ==
    /\ pc = "loop" /\ idx < total
    /\ \E kind \in {"fetch_conflict", "fetch_error"} : lastOutcome' = kind
    /\ idx' = idx + 1
    /\ pb_call' = ProgressCall(idx + 1, total, BarLength)
    /\ sinceCommit' = sinceCommit + 1
    /\ failed' = failed + 1
    /\ UNCHANGED <<DRY_RUN, pc, total, processed, skipped, commits, pending,
                   committed, reindexed, packs, announced, summary, escaped,
                   poVars,
                   emptyLogged, pendingOfFailed, committedOfFailed>>

\* Mutant of VisitProcessRaises: the handler forgets failed += 1.
VisitProcessRaisesUncounted ==
    /\ pc = "loop" /\ idx < total
    /\ \E r \in RaisingCalls[DRY_RUN] :
            /\ r.raised # "none"
            /\ lastOutcome' = IF r.raised = "conflict"
                              THEN "process_conflict" ELSE "process_error"
            /\ pending' = pending + r.writes
            /\ pendingOfFailed' = pendingOfFailed + r.writes
            /\ reindexed' = reindexed + r.reindex
            /\ announced' = announced + r.announced
    /\ idx' = idx + 1
    /\ pb_call' = ProgressCall(idx + 1, total, BarLength)
    /\ sinceCommit' = sinceCommit + 1
    /\ UNCHANGED <<DRY_RUN, pc, total, processed, skipped, failed, commits,
                   committed, packs, summary, escaped, poVars,
                   emptyLogged, committedOfFailed>>

\* Lines 220-248: process_object raises; what it wrote before stays in the
\* open transaction, the object is counted as failed and the loop continues.
VisitProcessRaises ==
    /\ pc = "loop" /\ idx < total
    /\ \E r \in RaisingCalls[DRY_RUN] :
            /\ r.raised # "none"
            /\ lastOutcome' = IF r.raised = "conflict"
                              THEN "process_conflict" ELSE "process_error"
            /\ pending' = pending + r.writes
            /\ pendingOfFailed' = pendingOfFailed + r.writes
            /\ reindexed' = reindexed + r.reindex
            /\ announced' = announced + r.announced
    /\ idx' = idx + 1
    /\ pb_call' = ProgressCall(idx + 1, total, BarLength)
    /\ sinceCommit' = sinceCommit + 1
    /\ failed' = failed + 1
    /\ UNCHANGED <<DRY_RUN, pc, total, processed, skipped, commits,
                   committed, packs, summary, escaped, poVars,
                   emptyLogged, committedOfFailed>>

\* Lines 220-253: the object is loaded, process_object returns and the
\* object is tallied as processed or skipped.
VisitTally ==
    /\ pc = "loop" /\ idx < total
    /\ \E r \in ReturningCalls[DRY_RUN] :
            /\ r.raised = "none"
            /\ lastOutcome' = IF r.changed THEN "changed" ELSE "unchanged"
            /\ processed' = IF r.changed THEN processed + 1 ELSE processed
            /\ skipped' = IF r.changed THEN skipped ELSE skipped + 1
            /\ pending' = pending + r.writes
            /\ reindexed' = reindexed + r.reindex
            /\ announced' = announced + r.announced
    /\ idx' = idx + 1
    /\ pb_call' = ProgressCall(idx + 1, total, BarLength)
    /\ sinceCommit' = sinceCommit + 1
    /\ pc' = "checkpoint"
    /\ UNCHANGED <<DRY_RUN, total, failed, commits, committed, packs,
                   summary, escaped, poVars,
                   emptyLogged, pendingOfFailed, committedOfFailed>>

\* Mutant of CheckpointDue: the guard without "and not DRY_RUN".
CheckpointDueInDryRun == idx % COMMIT_EVERY = 0

\* Line 256
CheckpointDue == idx % COMMIT_EVERY = 0 /\ ~DRY_RUN

\* Lines 256-260: the periodic transaction.commit() succeeds.
Checkpoint ==
    /\ pc = "checkpoint" /\ CheckpointDue
    /\ commits' = commits + 1
    /\ committed' = committed + pending
    /\ pending' = 0
    /\ committedOfFailed' = committedOfFailed + pendingOfFailed
    /\ pendingOfFailed' = 0
    /\ sinceCommit' = 0
    /\ pc' = "loop"
    /\ UNCHANGED <<DRY_RUN, total, idx, processed, skipped, failed,
                   lastOutcome, reindexed, packs, announced, summary, escaped,
                   poVars,
                   emptyLogged, pb_call>>

\* Line 257: transaction.commit() raises ConflictError, which nothing in
\* convert_all_images catches.
CheckpointRaises ==
    /\ pc = "checkpoint" /\ CheckpointDue
    /\ pc' = "raised"
    /\ escaped' = "commit"
    /\ UNCHANGED <<DRY_RUN, total, idx, processed, skipped, failed,
                   lastOutcome, sinceCommit, commits, pending, committed,
                   reindexed, packs, announced, summary, poVars,
                   emptyLogged, pb_call, pendingOfFailed, committedOfFailed>>

\* Line 256 is false: no commit after this object.
CheckpointSkip ==
    /\ pc = "checkpoint" /\ ~CheckpointDue
    /\ pc' = "loop"
    /\ UNCHANGED <<DRY_RUN, total, idx, processed, skipped, failed,
                   lastOutcome, sinceCommit, commits, pending, committed,
                   reindexed, packs, announced, summary, escaped, poVars,
                   emptyLogged, pb_call, pendingOfFailed, committedOfFailed>>

\* Lines 262-270: the loop is over; the final transaction.commit() succeeds.
FinalCommit ==
    /\ pc = "loop" /\ idx = total /\ ~DRY_RUN
    /\ commits' = commits + 1
    /\ committed' = committed + pending
    /\ pending' = 0
    /\ committedOfFailed' = committedOfFailed + pendingOfFailed
    /\ pendingOfFailed' = 0
    /\ sinceCommit' = 0
    /\ pc' = "summary"
    /\ UNCHANGED <<DRY_RUN, total, idx, processed, skipped, failed,
                   lastOutcome, reindexed, packs, announced, summary, escaped,
                   poVars,
                   emptyLogged, pb_call>>

\* Line 268: the final transaction.commit() raises ConflictError.
FinalCommitRaises ==
    /\ pc = "loop" /\ idx = total /\ ~DRY_RUN
    /\ pc' = "raised"
    /\ escaped' = "final_commit"
    /\ UNCHANGED <<DRY_RUN, total, idx, processed, skipped, failed,
                   lastOutcome, sinceCommit, commits, pending, committed,
                   reindexed, packs, announced, summary, poVars,
                   emptyLogged, pb_call, pendingOfFailed, committedOfFailed>>

\* Line 267 is false: a dry run commits nothing.
FinalCommitSkip ==
    /\ pc = "loop" /\ idx = total /\ DRY_RUN
    /\ pc' = "summary"
    /\ UNCHANGED <<DRY_RUN, total, idx, processed, skipped, failed,
                   lastOutcome, sinceCommit, commits, pending, committed,
                   reindexed, packs, announced, summary, escaped, poVars,
                   emptyLogged, pb_call, pendingOfFailed, committedOfFailed>>

\* Lines 272-274: the DONE line with the three counters.
Summary ==
    /\ pc = "summary"
    /\ summary' = TRUE
    /\ pc' = "pack"
    /\ UNCHANGED <<DRY_RUN, total, idx, processed, skipped, failed,
                   lastOutcome, sinceCommit, commits, pending, committed,
                   reindexed, packs, announced, escaped, poVars,
                   emptyLogged, pb_call, pendingOfFailed, committedOfFailed>>

\* Mutant of PackDue: the pack is not guarded at all.
PackDueAlways == TRUE

\* Line 277
PackDue == ~DRY_RUN /\ PACK_DATABASE_AFTER

\* Lines 277-278 and 184-191: db.pack() succeeds.
Pack ==
    /\ pc = "pack" /\ PackDue
    /\ packs' = packs + 1
    /\ pc' = "returned"
    /\ UNCHANGED <<DRY_RUN, total, idx, processed, skipped, failed,
                   lastOutcome, sinceCommit, commits, pending, committed,
                   reindexed, announced, summary, escaped, poVars,
                   emptyLogged, pb_call, pendingOfFailed, committedOfFailed>>

\* Line 190: db.pack() raises; neither pack_database nor convert_all_images
\* has a handler around it.
PackRaises ==
    /\ pc = "pack" /\ PackDue
    /\ pc' = "raised"
    /\ escaped' = "pack"
    /\ UNCHANGED <<DRY_RUN, total, idx, processed, skipped, failed,
                   lastOutcome, sinceCommit, commits, pending, committed,
                   reindexed, packs, announced, summary, poVars,
                   emptyLogged, pb_call, pendingOfFailed, committedOfFailed>>

\* Line 277 is false.
PackSkip ==
    /\ pc = "pack" /\ ~PackDue
    /\ pc' = "returned"
    /\ UNCHANGED <<DRY_RUN, total, idx, processed, skipped, failed,
                   lastOutcome, sinceCommit, commits, pending, committed,
                   reindexed, packs, announced, summary, escaped, poVars,
                   emptyLogged, pb_call, pendingOfFailed, committedOfFailed>>

Next ==
    \/ Start
    \/ VisitFetchRaises
    \/ VisitProcessRaises
    \/ VisitTally
    \/ Checkpoint
    \/ CheckpointRaises
    \/ CheckpointSkip
    \/ FinalCommit
    \/ FinalCommitRaises
    \/ FinalCommitSkip
    \/ Summary
    \/ Pack
    \/ PackRaises
    \/ PackSkip

Spec == Init /\ [][Next]_vars

(***************************************************************************)
(* process_object called repeatedly on one object.                         *)
(***************************************************************************)
\* What a call did under DRY_RUN = dry, without the object it returns.
Trace(r, dry) ==
    [dry |-> dry, changed |-> r.changed, raised |-> r.raised, writes |-> r.writes,
     transcoded |-> r.transcoded, announced |-> r.announced,
     written |-> r.written, reindex |-> r.reindex,
     reindexFailed |-> r.reindexFailed]

InitPO ==
    /\ DRY_RUN \in BOOLEAN
    /\ obj \in Objects
    /\ before = obj
    /\ results = <<>>
    /\ tc_input = NoneBlob /\ tc_done = FALSE /\ tc_output = NoneBlob
    /\ pc = "idle"
    /\ total = 0 /\ idx = 0
    /\ processed = 0 /\ skipped = 0 /\ failed = 0
    /\ lastOutcome = "none"
    /\ sinceCommit = 0 /\ commits = 0
    /\ pending = 0 /\ committed = 0
    /\ reindexed = 0 /\ packs = 0 /\ announced = 0
    /\ summary = FALSE
    /\ escaped = "none"
    /\ emptyLogged = FALSE /\ pb_call = NoCall
    /\ pendingOfFailed = 0 /\ committedOfFailed = 0
    /\ pb_elapsed = 0 /\ pb_line = NoLine

\* Lines 122-177: one call of process_object on the object, under any store
\* fault and any outcome of the reindex request.
CallProcessObject ==
    /\ pc = "idle" /\ Len(results) < MaxCalls
    /\ \E fault \in Faults, reindex_ok \in BOOLEAN :
         LET r == process_object(obj, fault, reindex_ok, DRY_RUN)
         IN /\ obj' = r.obj
            /\ before' = obj
            /\ results' = Append(results, Trace(r, DRY_RUN))
    /\ UNCHANGED <<DRY_RUN, driverVars, tcVars, pbVars>>

\* Line 31: the script is started again on the same database with another
\* DRY_RUN in its environment.
Rerun ==
    /\ pc = "idle" /\ results # <<>> /\ Len(results) < MaxCalls
    /\ DRY_RUN' = ~DRY_RUN
    /\ UNCHANGED <<driverVars, poVars>>

NextPO == CallProcessObject \/ Rerun

SpecPO == InitPO /\ [][NextPO]_vars

(***************************************************************************)
(* process_object on objects whose fields cover the filename shapes and    *)
(* both kinds of transcoding failure (decode and encode).                  *)
(***************************************************************************)
EmptyName == Name(<<>>)
HiddenName == Name(<<".", "a">>)

FilenameFieldValues ==
    { NoField,
      NamedBlobImage(JpegBlob, DotName, PNG_MIME),
      NamedBlobImage(PngAlphaBlob, NoName, NO_MIME),
      NamedBlobImage(JpegBlob, EmptyName, PNG_MIME),
      NamedBlobImage(PngPaletteBlob, PlainName, PNG_MIME),
      NamedBlobImage(GifAnimBlob, HiddenName, NO_MIME),
      NamedBlobImage(CorruptBlob, DotName, PNG_MIME),
      NamedBlobImage(HugeBlob, PlainName, PNG_MIME) }

FilenameObjects ==
    [{"image", "event_image", "lead_image"} -> FilenameFieldValues]

InitFields ==
    /\ DRY_RUN \in BOOLEAN
    /\ obj \in FilenameObjects
    /\ before = obj
    /\ results = <<>>
    /\ tc_input = NoneBlob /\ tc_done = FALSE /\ tc_output = NoneBlob
    /\ pc = "idle"
    /\ total = 0 /\ idx = 0
    /\ processed = 0 /\ skipped = 0 /\ failed = 0
    /\ lastOutcome = "none"
    /\ sinceCommit = 0 /\ commits = 0
    /\ pending = 0 /\ committed = 0
    /\ reindexed = 0 /\ packs = 0 /\ announced = 0
    /\ summary = FALSE
    /\ escaped = "none"
    /\ emptyLogged = FALSE /\ pb_call = NoCall
    /\ pendingOfFailed = 0 /\ committedOfFailed = 0
    /\ pb_elapsed = 0 /\ pb_line = NoLine

\* Lines 122-177: one call of process_object while the store raises
\* nothing, so that only the transcoder can fail.
CallOnHealthyStore ==
    /\ pc = "idle" /\ Len(results) < MaxCalls
    /\ \E reindex_ok \in BOOLEAN :
         LET r == process_object(obj, NoFault, reindex_ok, DRY_RUN)
         IN /\ obj' = r.obj
            /\ before' = obj
            /\ results' = Append(results, Trace(r, DRY_RUN))
    /\ UNCHANGED <<DRY_RUN, driverVars, tcVars, pbVars>>

NextFields == CallOnHealthyStore

SpecFields == InitFields /\ [][NextFields]_vars

(***************************************************************************)
(* convert_blob_to_webp on the images Pillow can decode: PNG (with a tRNS  *)
(* chunk or without), GIF (still or animated) and TIFF, whose palette      *)
(* images may carry an alpha channel (mode PA).                            *)
(***************************************************************************)
PngImages ==
    {Blob("PNG", m, t, 1, 0, 0, TRUE, e) :
        m \in {"RGB", "L", "P"}, t \in BOOLEAN, e \in BOOLEAN}
    \cup {Blob("PNG", m, FALSE, 1, 0, 0, TRUE, e) :
            m \in {"RGBA", "LA"}, e \in BOOLEAN}

GifImages ==
    {Blob("GIF", m, t, 1, 0, 0, TRUE, e) :
        m \in {"P", "L"}, t \in BOOLEAN, e \in BOOLEAN}
    \cup {Blob("GIF", m, t, n, d, l, TRUE, e) :
            m \in {"P", "L"}, t \in BOOLEAN, n \in 2..MaxFrames,
            d \in {40, 100}, l \in {0, 3}, e \in BOOLEAN}

TiffImages ==
    {Blob("TIFF", m, FALSE, 1, 0, 0, TRUE, e) :
        m \in {"RGB", "RGBA", "L", "LA", "P", "PA"}, e \in BOOLEAN}

Images == PngImages \cup GifImages \cup TiffImages \cup {CorruptBlob}

InitTC ==
    /\ tc_input \in Images
    /\ tc_done = FALSE
    /\ tc_output = NoneBlob
    /\ DRY_RUN \in BOOLEAN
    /\ obj = NoObject /\ before = NoObject /\ results = <<>>
    /\ pc = "idle"
    /\ total = 0 /\ idx = 0
    /\ processed = 0 /\ skipped = 0 /\ failed = 0
    /\ lastOutcome = "none"
    /\ sinceCommit = 0 /\ commits = 0
    /\ pending = 0 /\ committed = 0
    /\ reindexed = 0 /\ packs = 0 /\ announced = 0
    /\ summary = FALSE
    /\ escaped = "none"
    /\ emptyLogged = FALSE /\ pb_call = NoCall
    /\ pendingOfFailed = 0 /\ committedOfFailed = 0
    /\ pb_elapsed = 0 /\ pb_line = NoLine

\* Lines 76-115: one call of convert_blob_to_webp.
Transcode ==
    /\ pc = "idle" /\ ~tc_done
    /\ tc_output' = convert_blob_to_webp(tc_input)
    /\ tc_done' = TRUE
    /\ UNCHANGED <<DRY_RUN, driverVars, obj, before, results, tc_input,
                   pbVars>>

NextTC == Transcode

SpecTC == InitTC /\ [][NextTC]_vars

(***************************************************************************)
(* progress_bar on arbitrary arguments, next to the runs of the driver.    *)
(* A behaviour of SpecPB is either a run of convert_all_images, which      *)
(* records the arguments of its progress_bar calls in pb_call, or one call *)
(* of progress_bar with arguments drawn from the sets below.               *)
(***************************************************************************)
\* Values of the length parameter: a short bar and the default.
Lengths == {4, BarLength}

ProgressCalls ==
    {ProgressCall(current, tot, length) :
        current \in 0..MaxTotal, tot \in -1..MaxTotal, length \in Lengths}

InitPB ==
    /\ pb_call \in ProgressCalls
    /\ pb_elapsed \in 0..MaxElapsed
    /\ pb_line = NoLine
    /\ DRY_RUN = FALSE
    /\ obj = NoObject /\ before = NoObject /\ results = <<>>
    /\ tc_input = NoneBlob /\ tc_done = FALSE /\ tc_output = NoneBlob
    /\ pc = "idle"
    /\ total = 0 /\ idx = 0
    /\ processed = 0 /\ skipped = 0 /\ failed = 0
    /\ lastOutcome = "none"
    /\ sinceCommit = 0 /\ commits = 0
    /\ pending = 0 /\ committed = 0
    /\ reindexed = 0 /\ packs = 0 /\ announced = 0
    /\ summary = FALSE
    /\ escaped = "none"
    /\ emptyLogged = FALSE
    /\ pendingOfFailed = 0 /\ committedOfFailed = 0

\* Lines 48-69: one call of progress_bar.
CallProgressBar ==
    /\ pc = "idle" /\ pb_line = NoLine /\ pb_call # NoCall
    /\ pb_line' = progress_bar(pb_call.current, pb_call.total, pb_elapsed,
                               pb_call.length)
    /\ UNCHANGED <<DRY_RUN, driverVars, obj, before, results, tcVars,
                   pb_elapsed>>

InitDriverOrPB == Init \/ InitPB

NextPB == Next \/ CallProgressBar

SpecPB == InitDriverOrPB /\ [][NextPB]_vars

(***************************************************************************)
(* Properties                                                              *)
(***************************************************************************)
FieldNames == {"image", "event_image", "lead_image"}
Range(seq) == {seq[i] : i \in DOMAIN seq}
FailureOutcomes ==
    {"fetch_conflict", "fetch_error", "process_conflict", "process_error"}
ConflictOutcomes == {"fetch_conflict", "process_conflict"}
AfterLoop == {"summary", "pack", "returned"}

\* C1: processed + skipped + failed equals the number of objects visited
\* after every loop iteration, whatever the outcome of each object, and
\* equals the number of brains once the loop has finished.
C1_TallySum ==
    /\ processed + skipped + failed = idx
    /\ pc \in AfterLoop => processed + skipped + failed = total

\* C1 witness: a finished run in which objects were converted, skipped and
\* failed, the failures coming from the fetch and from process_object.
C1_Witness ==
    /\ pc = "returned" /\ total = MaxT
    /\ processed > 0 /\ skipped > 0 /\ failed > 1
    /\ lastOutcome = "process_conflict"

\* C2: in a dry run nothing is written to a field, no reindex is requested,
\* nothing is committed and the database is not packed.
C2_DryRunPurity ==
    DRY_RUN => /\ pending = 0 /\ committed = 0
               /\ reindexed = 0
               /\ commits = 0
               /\ packs = 0

\* C2 witness: a dry run that went past a commit interval, announced
\* conversions and returned.
C2_Witness ==
    /\ DRY_RUN /\ pc = "returned"
    /\ total > COMMIT_EVERY
    /\ announced > 0 /\ failed > 0

\* C3: a conflict on an object leaves no write of the open transaction
\* behind, because the driver aborts the transaction before it goes on.
C3_ConflictAborts ==
    (lastOutcome \in ConflictOutcomes /\ pc = "loop") => pending = 0

\* C4: in a non-dry run the number of objects visited since the last commit
\* never exceeds COMMIT_EVERY.
C4_WindowBounded == ~DRY_RUN => sinceCommit <= COMMIT_EVERY

\* C5: a complete non-dry run over total > 0 objects has committed once per
\* full interval of COMMIT_EVERY objects and once more at the end.
C5_CommitCount ==
    (~DRY_RUN /\ total > 0 /\ pc = "returned")
        => commits = (total \div COMMIT_EVERY) + 1

\* C6: a failed fetch or a failed process_object never cuts the loop short:
\* after a failure the driver is back at the head of the loop (or is past
\* the last object), only a raising commit that follows a tallied object
\* can leave the loop early, and a run that gets past the loop has visited
\* and tallied every object.
C6_FailureIsolated ==
    /\ (lastOutcome \in FailureOutcomes /\ idx < total) => pc = "loop"
    /\ (pc = "raised" /\ idx < total)
          => (escaped = "commit" /\ lastOutcome \in {"changed", "unchanged"})
    /\ (pc \in AfterLoop /\ total > 0)
          => (idx = total /\ processed + skipped + failed = total)

\* C6 witness: a finished run whose first part had failures of the fetch and
\* of process_object and whose last object was still converted.
C6_Witness ==
    /\ pc = "returned" /\ total >= 3
    /\ failed >= 2 /\ processed >= 1
    /\ lastOutcome = "changed"

\* C7: every run over at least one object ends with the DONE summary
\* logged, also when a commit raises.
C7_SummaryAlways == (pc \in {"returned", "raised"} /\ total > 0) => summary

\* C8 as claimed: a call of process_object that follows a call which
\* returned, on the same object, returns changed = False, whatever the mode
\* of the first call.
C8_SecondCallUnchanged ==
    \A i \in 2..Len(results) :
        (results[i - 1].raised = "none" /\ results[i].raised = "none")
            => ~results[i].changed

\* C8 as amended: a call of process_object that follows a call which
\* returned, on the same object, returns changed = False when the earlier
\* call was not a dry run or the later call is one.
C8_SecondCallUnchangedSameMode ==
    \A i \in 2..Len(results) :
        (/\ results[i - 1].raised = "none" /\ results[i].raised = "none"
         /\ (~results[i - 1].dry \/ results[i].dry))
            => ~results[i].changed

\* C8 witness: the first call, not a dry run, rewrote one field and failed
\* to transcode another, and the second call returned.
C8_Witness ==
    /\ Len(results) = 2
    /\ ~results[1].dry
    /\ results[1].raised = "none" /\ results[1].changed
    /\ results[1].writes = 1 /\ Len(results[1].transcoded) = 2
    /\ results[2].raised = "none" /\ ~results[2].changed

DeclaredWebp == {WEBP_MIME, WEBP_MIME_UPPER, WEBP_MIME_MIXED}

\* C9: a candidate field whose declared content type is image/webp in any
\* letter case is not handed to the transcoder and is the same value after
\* the call as before it.
C9_WebpFieldUntouched ==
    \A f \in FieldNames :
        (results # <<>> /\ before[f].present
            /\ before[f].contentType \in DeclaredWebp)
        => /\ obj[f] = before[f]
           /\ f \notin Range(results[Len(results)].transcoded)
           /\ f \notin Range(results[Len(results)].written)

\* C9 witness: a call that rewrote one field of an object whose other field
\* holds non-WebP bytes declared as IMAGE/WEBP.
C9_Witness ==
    /\ results # <<>>
    /\ results[Len(results)].writes > 0
    /\ \E f \in FieldNames :
          /\ before[f].present
          /\ before[f].contentType = WEBP_MIME_UPPER
          /\ before[f].data = JpegBlob

\* C10: an exception of db.pack() does not leave convert_all_images.
C10_PackFailureContained == escaped # "pack"

\* db.pack() invocations, the one that raised included.
PackInvocations == packs + (IF escaped = "pack" THEN 1 ELSE 0)

\* C11: a non-dry run over total > 0 objects that gets to its end invokes
\* db.pack() exactly once, and only after the final commit, when every
\* object has been visited and no write is left uncommitted; nothing runs
\* after it.  A dry run, in which packing is disabled, never invokes it.
C11_PackOnceAfterCommits ==
    /\ PackInvocations <= 1
    /\ (pc = "returned" /\ ~DRY_RUN /\ PACK_DATABASE_AFTER /\ total > 0)
          => PackInvocations = 1
    /\ PackInvocations = 1
          => /\ pc \in {"returned", "raised"}
             /\ idx = total /\ commits >= 1 /\ pending = 0 /\ summary
    /\ (DRY_RUN \/ ~PACK_DATABASE_AFTER) => PackInvocations = 0

\* C11 witness: a finished non-dry run with a checkpoint commit, a final
\* commit of converted fields and one pack.
C11_Witness ==
    /\ pc = "returned" /\ ~DRY_RUN
    /\ commits >= 2 /\ committed > 0 /\ packs = 1

\* The fields of the object that the last call replaced by a WebP value.
ReplacedFields ==
    {f \in FieldNames : obj[f] # before[f] /\ obj[f].present
                        /\ obj[f].data.fmt = "WEBP"}

\* C12: a call of process_object that returns, returns True exactly when
\* it replaced at least one candidate field by a new WebP value.
C12_ChangedIffReplaced ==
    (results # <<>> /\ results[Len(results)].raised = "none")
        => (results[Len(results)].changed <=> ReplacedFields # {})

\* C12 witness: a dry-run call that announced a conversion and returned
\* False on an object with an absent field.
C12_Witness ==
    /\ Len(results) = 1
    /\ results[1].dry /\ results[1].raised = "none"
    /\ results[1].announced > 0 /\ ~results[1].changed
    /\ \E f \in FieldNames : ~before[f].present

\* C12 second case reached as well: a real call that returned True although
\* one of its fields failed to transcode.
C12_WitnessTrue ==
    /\ Len(results) = 1
    /\ ~results[1].dry /\ results[1].raised = "none" /\ results[1].changed
    /\ Len(results[1].transcoded) > results[1].writes

\* C14: a call requests reindexing at most once, only when it has got
\* through all candidate fields without an exception, the object was
\* changed and the run is not a dry run; a failed reindex request neither
\* raises nor alters the returned flag.
C14_ReindexOnceAtEnd ==
    \A i \in DOMAIN results :
        /\ results[i].reindex <= 1
        /\ results[i].reindex = 1
              <=> (/\ results[i].raised = "none"
                   /\ results[i].writes > 0
                   /\ ~results[i].dry)
        /\ results[i].reindexFailed
              => (/\ results[i].reindex = 1
                  /\ results[i].raised = "none"
                  /\ results[i].changed)

\* C14 witness: a call that rewrote two fields, asked for one reindex, and
\* returned True although the reindex failed.
C14_Witness ==
    /\ results # <<>>
    /\ results[Len(results)].writes = 2
    /\ results[Len(results)].reindex = 1
    /\ results[Len(results)].reindexFailed
    /\ results[Len(results)].changed

FieldIndex(f) == CHOOSE k \in 1..3 : candidate_fields[k] = f
LastCall == results[Len(results)]
Submitted(f) ==
    /\ before[f].present /\ Truthy(before[f].data)
    /\ before[f].contentType \notin DeclaredWebp
Unconvertible(f) == Submitted(f) /\ before[f].data \in {CorruptBlob, HugeBlob}
Convertible(f) ==
    Submitted(f)
        /\ before[f].data \in {JpegBlob, PngAlphaBlob, PngPaletteBlob,
                               GifAnimBlob}

\* C13: a field whose bytes cannot be decoded or encoded does not make
\* process_object raise and is left as it was, and the call still hands
\* every other eligible field to the transcoder, in the order image,
\* event_image, lead_image, and rewrites the convertible ones.
C13_TranscodeFailureContained ==
    results # <<>>
        => /\ LastCall.raised = "none"
           /\ \A f \in FieldNames : Unconvertible(f) => obj[f] = before[f]
           /\ \A f \in FieldNames :
                 Submitted(f) <=> f \in Range(LastCall.transcoded)
           /\ \A i, j \in DOMAIN LastCall.transcoded :
                 i < j => FieldIndex(LastCall.transcoded[i])
                             < FieldIndex(LastCall.transcoded[j])
           /\ \A f \in FieldNames :
                 (Convertible(f) /\ ~LastCall.dry)
                     => (f \in Range(LastCall.written)
                         /\ obj[f].data.fmt = "WEBP")

\* C13 witness: image cannot be decoded, event_image cannot be encoded and
\* lead_image is converted by the same call.
C13_Witness ==
    /\ Len(results) = 1 /\ ~LastCall.dry
    /\ before["image"].data = CorruptBlob
    /\ before["event_image"].data = HugeBlob
    /\ LastCall.transcoded = <<"image", "event_image", "lead_image">>
    /\ LastCall.written = <<"lead_image">>

\* The new filename that the claim promises for each filename of the model.
ExpectedFilename(filename) ==
    CASE filename = DotName ->
            Name(<<"a", ".", "b", ".", "w", "e", "b", "p">>)
      [] filename = PlainName -> Name(<<"a", ".", "w", "e", "b", "p">>)
      [] filename = HiddenName -> Name(<<".", "w", "e", "b", "p">>)
      [] filename \in {NoName, EmptyName} ->
            Name(<<"i", "m", "a", "g", "e", ".", "w", "e", "b", "p">>)
      [] OTHER -> NoName

\* C18: every value written by process_object has content type image/webp
\* and the original filename with only its last extension replaced by
\* .webp; no or an empty filename gives image.webp, a filename without a
\* dot keeps its whole name.
C18_WrittenNameAndType ==
    results # <<>>
        => \A f \in Range(LastCall.written) :
              /\ obj[f].contentType = WEBP_MIME
              /\ obj[f].filename = ExpectedFilename(before[f].filename)

\* C18 witness: one call wrote a field named a.b.c, a field without a
\* filename and a field whose filename has no dot.
C18_Witness ==
    /\ Len(results) = 1 /\ Len(LastCall.written) = 3
    /\ \E f, g, h \in FieldNames :
          /\ before[f].filename = DotName
          /\ before[g].filename = NoName
          /\ before[h].filename = PlainName

\* C15: an animated input of more than one frame comes out of the
\* transcoder with the same number of frames, the same frame duration and
\* the same loop count.
C15_AnimationPreserved ==
    (tc_done /\ Truthy(tc_output) /\ tc_input.frames > 1)
        => /\ tc_output.frames = tc_input.frames
           /\ tc_output.duration = tc_input.duration
           /\ tc_output.loop = tc_input.loop

HasAlphaOrPaletteTransparency(blob) ==
    \/ blob.mode \in {"RGBA", "LA", "PA"}
    \/ (blob.mode = "P" /\ blob.transparency)

Opaque(blob) == blob.mode \in {"RGB", "L", "P"} /\ ~blob.transparency

\* C16: every decoded image with an alpha channel or palette transparency,
\* whatever its mode, is encoded from RGBA, and every opaque image from RGB.
C16_AlphaPathForAllModes ==
    (tc_done /\ Truthy(tc_output))
        => /\ HasAlphaOrPaletteTransparency(tc_input)
                => tc_output.mode = "RGBA"
           /\ Opaque(tc_input) => tc_output.mode = "RGB"

\* C17: with no object to visit, convert_all_images calls progress_bar
\* never, invokes neither transaction.commit() nor db.pack(), raises
\* nothing, and returns after logging that no content was found, in a dry
\* run and in a non-dry run alike.
C17_EmptySetDoesNothing ==
    total = 0
        => /\ pb_call = NoCall
           /\ commits = 0 /\ PackInvocations = 0 /\ escaped = "none"
           /\ committed = 0 /\ ~summary
           /\ pc \in {"idle", "start", "returned"}
           /\ pc = "returned" => emptyLogged

\* C17 witness: a non-dry run over no objects has returned.
C17_Witness == total = 0 /\ pc = "returned" /\ ~DRY_RUN /\ emptyLogged

\* C17 witness: a dry run over no objects has returned.
C17_WitnessDryRun == total = 0 /\ pc = "returned" /\ DRY_RUN /\ emptyLogged

\* A call of progress_bar outside of the driver has returned.
Returned == pc = "idle" /\ pb_line # NoLine

C19_WitnessDriver ==
    pc = "returned" /\ total = MaxT /\ pb_call.current = total

\* C19 witness: a call with total <= 0 has returned.
C19_WitnessEmpty == Returned /\ pb_call.total <= 0 /\ pb_line.empty

\* C20: no write made for an object that was counted as failed is part of
\* a commit.
C20_FailedObjectsLeaveNoWrite == committedOfFailed = 0

====
